---- MODULE Spec2Model ----
(***************************************************************************)
(* Family Tree Viewer (src/main.cpp): the data model, the generation       *)
(* relaxation, the cluster ownership pass and the two-phase layout engine   *)
(* (ComputeSubtreeSize / PositionSubtree), as a state machine.  One reload  *)
(* (FamilyTreeApp::ReloadData) loads a record set and runs                  *)
(* LayoutEngine::Recalculate; the pipeline is modelled step by step, with   *)
(* the two recursions on explicit call stacks.                              *)
(***************************************************************************)
EXTENDS Integers, Sequences, FiniteSets, TLC

(***************************************************************************)
(* Config (src/main.cpp:30-37) and the literals of the layout engine.       *)
(***************************************************************************)
BOX_WIDTH == 200
BOX_HEIGHT == 75
V_GAP == 150
H_GAP == 50
SPOUSE_GAP == 25
TREE_GAP == 0
SENTINEL == -10000
VISIBLE_MIN == -9000
ANCHOR == 50
MARGIN == 100
DEFAULT_TOTAL == 1000
GEN_LIMIT == 20

(***************************************************************************)
(* Bounds of the model.                                                     *)
(***************************************************************************)
\* the call stack of ComputeSubtreeSize holds at most this many frames; a
\* deeper recursion is the process running out of stack
StackLimit == 7
\* reloads of one behaviour of SpecReload
MaxLoads == 3
\* records of a record set
MaxPeople == 5
\* records of a record set of a reload sequence
MaxReloadPeople == 2
\* reloads of an unchanged record set in one behaviour of SpecRerun
MaxReruns == 2
\* records of a record set that is reloaded unchanged
MaxRerunPeople == 4
\* data lines of a file given as text
MaxTextLines == 2

Max(a, b) == IF a >= b THEN a ELSE b
Min(a, b) == IF a <= b THEN a ELSE b

Range(s) == {s[i] : i \in 1..Len(s)}

(***************************************************************************)
(* struct Person: the relationship fields and the visualization state.      *)
(***************************************************************************)
Person(id, fatherId, motherId, spouses, exSpouses) ==
    [id |-> id, fatherId |-> fatherId, motherId |-> motherId,
     spouses |-> spouses, exSpouses |-> exSpouses,
     x |-> SENTINEL, y |-> SENTINEL, gen |-> 0]

\* idMap[people[i].id] = i for i ascending: the last record of an id wins.
\* 0 stands for "not found" (Get returns nullptr).
IndexOf(ppl, id) ==
    IF \E i \in 1..Len(ppl) : ppl[i].id = id
    THEN CHOOSE i \in 1..Len(ppl) :
            /\ ppl[i].id = id
            /\ \A j \in 1..Len(ppl) : ppl[j].id = id => j <= i
    ELSE 0

Exists(ppl, id) == IndexOf(ppl, id) # 0

\* DataModel::Get, for an id that is present
Get(ppl, id) == ppl[IndexOf(ppl, id)]

Ids(ppl) == {ppl[i].id : i \in 1..Len(ppl)}

\* std::map::operator[] on a map of int: a missing key reads as 0 and is
\* inserted with that value
MapGet(m, k, dflt) == IF k \in DOMAIN m THEN m[k] ELSE dflt
MapPut(m, k, v) == [j \in (DOMAIN m) \cup {k} |-> IF j = k THEN v ELSE m[j]]
MapTouch(m, k, dflt) == IF k \in DOMAIN m THEN m ELSE MapPut(m, k, dflt)
EmptyMap == [j \in {} |-> 0]

(***************************************************************************)
(* LayoutEngine::GetChildren: the children of pid and of every listed       *)
(* spouse, sorted by (other-parent key, id).                                *)
(***************************************************************************)
KidSet(ppl, pid) ==
    LET parents == {pid} \cup Range(Get(ppl, pid).spouses)
    IN {ppl[i].id : i \in {j \in 1..Len(ppl) :
                              ppl[j].fatherId \in parents \/ ppl[j].motherId \in parents}}

\* spouseIdx[p->spouses[i]] = i, 0-based: the last position of an id wins
SpouseIdx(sp, id) ==
    (CHOOSE i \in 1..Len(sp) :
        /\ sp[i] = id
        /\ \A j \in 1..Len(sp) : sp[j] = id => j <= i) - 1

GetKey(ppl, pid, id) ==
    LET p == Get(ppl, pid)
        numLeft == Len(p.spouses) \div 2
        k == Get(ppl, id)
        otherId == IF k.fatherId = pid THEN k.motherId ELSE k.fatherId
    IN IF ~Exists(ppl, id) THEN 999
       ELSE IF otherId = 0 THEN numLeft
       ELSE IF otherId \in Range(p.spouses)
            THEN (IF SpouseIdx(p.spouses, otherId) < numLeft
                  THEN SpouseIdx(p.spouses, otherId)
                  ELSE SpouseIdx(p.spouses, otherId) + 1)
            ELSE numLeft

RECURSIVE SortKids(_, _, _)
SortKids(ppl, pid, S) ==
    IF S = {} THEN <<>>
    ELSE LET first == CHOOSE a \in S : \A b \in S \ {a} :
                         \/ GetKey(ppl, pid, a) < GetKey(ppl, pid, b)
                         \/ /\ GetKey(ppl, pid, a) = GetKey(ppl, pid, b)
                            /\ a < b
         IN <<first>> \o SortKids(ppl, pid, S \ {first})

GetChildren(ppl, pid) ==
    IF ~Exists(ppl, pid) THEN <<>>
    ELSE SortKids(ppl, pid, KidSet(ppl, pid))

(***************************************************************************)
(* DataModel::LoadFromFile.  A row is one data line whose seven fields      *)
(* parsed: the numeric id, father and mother ids and the spouse tokens, a   *)
(* token being an id and the 'x' marker.  The store is replaced wholesale;  *)
(* a spouse id of 0 is dropped, a marked spouse is also an ex-spouse.       *)
(***************************************************************************)
RECURSIVE SpouseIds(_)
SpouseIds(tokens) ==
    IF tokens = <<>> THEN <<>>
    ELSE (IF Head(tokens).id # 0 THEN <<Head(tokens).id>> ELSE <<>>)
         \o SpouseIds(Tail(tokens))

ExIds(tokens) ==
    {tokens[i].id : i \in {j \in 1..Len(tokens) : tokens[j].id # 0 /\ tokens[j].ex}}

LoadFromFile(rows) ==
    [i \in 1..Len(rows) |->
        Person(rows[i].id, rows[i].fatherId, rows[i].motherId,
               SpouseIds(rows[i].spouse), ExIds(rows[i].spouse))]

(***************************************************************************)
(* DataModel::LoadFromFile, from the text.  The file is a sequence of       *)
(* lines, a line a sequence of characters.  The first line is the header.   *)
(***************************************************************************)
Digits == <<"0", "1", "2", "3", "4", "5", "6", "7", "8", "9">>
IsDigit(c) == c \in Range(Digits)
DigitVal(c) == (CHOOSE d \in 1..10 : Digits[d] = c) - 1
IsSpace(c) == c \in {" ", "\t", "\r"}

\* std::getline(stream, segment, delim) until it fails: the segments between
\* the delimiters; nothing follows a delimiter that ends the text
RECURSIVE Split(_, _)
Split(s, delim) ==
    IF s = <<>> THEN <<>>
    ELSE IF \A i \in 1..Len(s) : s[i] # delim THEN <<s>>
    ELSE LET k == CHOOSE i \in 1..Len(s) :
                      s[i] = delim /\ \A j \in 1..(i - 1) : s[j] # delim
         IN <<SubSeq(s, 1, k - 1)>> \o Split(SubSeq(s, k + 1, Len(s)), delim)

RECURSIVE SkipSpace(_)
SkipSpace(s) == IF s # <<>> /\ IsSpace(Head(s)) THEN SkipSpace(Tail(s)) ELSE s

\* the value of the digits s starts with, after the value acc of those before
RECURSIVE DigitsValue(_, _)
DigitsValue(s, acc) ==
    IF s # <<>> /\ IsDigit(Head(s))
    THEN DigitsValue(Tail(s), 10 * acc + DigitVal(Head(s)))
    ELSE acc

\* std::stoi: leading white space, a sign, the digits that follow; what comes
\* after the digits is ignored.  <<>> when it throws (no digit to convert),
\* else <<value>>.  The fields of the model are too short to overflow an int.
Stoi(s) ==
    LET t == SkipSpace(s)
        neg == t # <<>> /\ Head(t) = "-"
        u == IF t # <<>> /\ Head(t) \in {"+", "-"} THEN Tail(t) ELSE t
    IN IF u = <<>> \/ ~IsDigit(Head(u)) THEN <<>>
       ELSE <<(IF neg THEN -1 ELSE 1) * DigitsValue(u, 0)>>

\* one segment of the spouse field: the trailing 'x' or 'X' is the marker and
\* is removed; a segment std::stoi throws on gives nothing
ParseToken(sId) ==
    LET isEx == sId # <<>> /\ sId[Len(sId)] \in {"x", "X"}
        t == IF isEx THEN SubSeq(sId, 1, Len(sId) - 1) ELSE sId
    IN IF Stoi(t) = <<>> THEN <<>> ELSE <<[id |-> Stoi(t)[1], ex |-> isEx]>>

RECURSIVE ParseTokens(_)
ParseTokens(segments) ==
    IF segments = <<>> THEN <<>>
    ELSE ParseToken(Head(segments)) \o ParseTokens(Tail(segments))

\* one data line: <<>> when the line is skipped, else <<row>>
ParseLine(raw) ==
    LET line == IF raw # <<>> /\ raw[Len(raw)] = "\r"
                THEN SubSeq(raw, 1, Len(raw) - 1) ELSE raw
        parts == Split(line, ",")
    IN IF raw = <<>> \/ Len(parts) < 7 THEN <<>>
       ELSE IF Stoi(parts[1]) = <<>> \/ Stoi(parts[5]) = <<>> \/ Stoi(parts[6]) = <<>>
       THEN <<>>
       ELSE <<[id |-> Stoi(parts[1])[1],
               fatherId |-> Stoi(parts[5])[1],
               motherId |-> Stoi(parts[6])[1],
               spouse |-> ParseTokens(Split(parts[7], "|"))]>>

RECURSIVE ParseLines(_)
ParseLines(lines) ==
    IF lines = <<>> THEN <<>>
    ELSE ParseLine(Head(lines)) \o ParseLines(Tail(lines))

\* the rows of a file: the header is read and dropped, every other line parsed
ReadRows(file) == IF file = <<>> THEN <<>> ELSE ParseLines(Tail(file))

(***************************************************************************)
(* LayoutEngine::ResetState, the part on the people.                        *)
(***************************************************************************)
ResetPeople(ppl) ==
    [i \in 1..Len(ppl) |-> [ppl[i] EXCEPT !.x = SENTINEL, !.y = SENTINEL, !.gen = -1]]

(***************************************************************************)
(* LayoutEngine::CalculateGenerations: one pass of the for loop inside the  *)
(* while loop, in place (a later record sees what an earlier one got in     *)
(* the same pass).                                                          *)
(***************************************************************************)
GenOf(ppl, id) == IF Exists(ppl, id) THEN Get(ppl, id).gen ELSE -1

\* the generation of the first listed spouse that has one, or -1
RECURSIVE SpouseGen(_, _)
SpouseGen(ppl, sp) ==
    IF sp = <<>> THEN -1
    ELSE IF GenOf(ppl, Head(sp)) # -1 THEN GenOf(ppl, Head(sp))
    ELSE SpouseGen(ppl, Tail(sp))

\* the generation the loop body gives people[i], -1 when it gives none
GenStep(ppl, i) ==
    LET p == ppl[i]
        pGen == Max(GenOf(ppl, p.fatherId), GenOf(ppl, p.motherId))
    IN IF pGen # -1 THEN pGen + 1
       ELSE IF SpouseGen(ppl, p.spouses) # -1 THEN SpouseGen(ppl, p.spouses)
       ELSE IF p.fatherId = 0 /\ p.motherId = 0 /\ p.spouses = <<>> THEN 0
       ELSE -1

RECURSIVE GenScan(_, _, _)
GenScan(ppl, i, changed) ==
    IF i > Len(ppl) THEN [people |-> ppl, changed |-> changed]
    ELSE IF ppl[i].gen # -1 \/ GenStep(ppl, i) = -1 THEN GenScan(ppl, i + 1, changed)
    ELSE GenScan([ppl EXCEPT ![i].gen = GenStep(ppl, i)], i + 1, TRUE)

\* the fallback after the loop
GenFallback(ppl) ==
    [i \in 1..Len(ppl) |-> IF ppl[i].gen = -1 THEN [ppl[i] EXCEPT !.gen = 0] ELSE ppl[i]]

(***************************************************************************)
(* LayoutEngine::AssignOwnership / StartClaiming.                           *)
(***************************************************************************)
RECURSIVE MinOf(_, _)
MinOf(m, s) == IF s = <<>> THEN m ELSE MinOf(Min(m, Head(s)), Tail(s))

\* a canonical root check that forgets the spouses
MinIdSelf(p) == p.id

\* "Canonical root check": p.id is not above any listed spouse id
MinId(p) == MinOf(p.id, p.spouses)

\* a for loop of StartClaiming that writes the owner of an id without
\* asking whether it was visited
RECURSIVE ClaimAllAgain(_, _, _)
ClaimAllAgain(todo, rootId, st) ==
    IF todo = <<>> THEN st
    ELSE LET s == Head(todo)
         IN ClaimAllAgain(Tail(todo), rootId,
                          [visited |-> st.visited \cup {s},
                           owner |-> MapPut(st.owner, s, rootId),
                           q |-> IF s \in st.visited THEN st.q ELSE Append(st.q, s)])

\* one for loop of StartClaiming over the ids of `todo`, in order
RECURSIVE ClaimAll(_, _, _)
ClaimAll(todo, rootId, st) ==
    IF todo = <<>> THEN st
    ELSE LET s == Head(todo)
         IN IF s \in st.visited THEN ClaimAll(Tail(todo), rootId, st)
            ELSE ClaimAll(Tail(todo), rootId,
                          [visited |-> st.visited \cup {s},
                           owner |-> MapPut(st.owner, s, rootId),
                           q |-> Append(st.q, s)])

\* a while loop of StartClaiming without its loop over the spouses
RECURSIVE ClaimLoopKidsOnly(_, _, _, _)
ClaimLoopKidsOnly(ppl, rootId, head, st) ==
    IF head > Len(st.q) THEN st
    ELSE LET currId == st.q[head]
         IN IF ~Exists(ppl, currId) THEN ClaimLoopKidsOnly(ppl, rootId, head + 1, st)
            ELSE ClaimLoopKidsOnly(ppl, rootId, head + 1,
                     ClaimAll(GetChildren(ppl, currId), rootId, st))

\* the while loop of StartClaiming from position head of the queue
RECURSIVE ClaimLoop(_, _, _, _)
ClaimLoop(ppl, rootId, head, st) ==
    IF head > Len(st.q) THEN st
    ELSE LET currId == st.q[head]
         IN IF ~Exists(ppl, currId) THEN ClaimLoop(ppl, rootId, head + 1, st)
            ELSE ClaimLoop(ppl, rootId, head + 1,
                     ClaimAll(GetChildren(ppl, currId), rootId,
                        ClaimAll(Get(ppl, currId).spouses, rootId, st)))

StartClaiming(ppl, rootId, visited, owner) ==
    ClaimLoop(ppl, rootId, 1,
              [visited |-> visited \cup {rootId},
               owner |-> MapPut(owner, rootId, rootId),
               q |-> <<rootId>>])

\* a test that starts a cluster from a root a traversal has visited already
StartsClusterVisited(ppl, i, visited) ==
    /\ ppl[i].gen = 0
    /\ ~(ppl[i].id > MinId(ppl[i]))

\* the test of AssignOwnership's loop body: people[i] starts a cluster
StartsCluster(ppl, i, visited) ==
    /\ ppl[i].gen = 0
    /\ ~(ppl[i].id > MinId(ppl[i]) \/ ppl[i].id \in visited)

(***************************************************************************)
(* LayoutEngine::IsConnectedToPlaced.  nodeOwner[p.id] inserts the key      *)
(* with owner 0 for every record the loop looks at before it returns.       *)
(***************************************************************************)
\* a test that looks at the parents and the spouses only
TouchesNoKids(ppl, id, placed) ==
    LET p == Get(ppl, id)
    IN \/ p.fatherId \in placed
       \/ p.motherId \in placed
       \/ Range(p.spouses) \cap placed # {}

Touches(ppl, id, placed) ==
    LET p == Get(ppl, id)
    IN \/ p.fatherId \in placed
       \/ p.motherId \in placed
       \/ Range(p.spouses) \cap placed # {}
       \/ Range(GetChildren(ppl, id)) \cap placed # {}

RECURSIVE IsConnectedToPlaced(_, _, _, _, _)
IsConnectedToPlaced(ppl, i, rootId, placed, owner) ==
    IF i > Len(ppl) THEN [result |-> FALSE, owner |-> owner]
    ELSE LET o == MapTouch(owner, ppl[i].id, 0)
         IN IF o[ppl[i].id] = rootId /\ Touches(ppl, ppl[i].id, placed)
            THEN [result |-> TRUE, owner |-> o]
            ELSE IsConnectedToPlaced(ppl, i + 1, rootId, placed, o)

(***************************************************************************)
(* LayoutEngine::ComputeSubtreeSize, the parts between its recursive calls. *)
(***************************************************************************)
ParentsW(p) ==
    IF Len(p.spouses) > 0
    THEN BOX_WIDTH * (1 + Len(p.spouses)) + SPOUSE_GAP * Len(p.spouses)
    ELSE BOX_WIDTH

\* "If owned by another tree, it takes 0 space here"
OwnedElsewhere(owner, pid, rootId) == pid \in DOMAIN owner /\ owner[pid] # rootId

\* the value a call returns at once, <<>> when the call goes on to its body
SizeShortcut(owner, metrics, pid, rootId) ==
    IF OwnedElsewhere(owner, pid, rootId) THEN <<0, 0>>
    ELSE IF pid \in DOMAIN metrics THEN metrics[pid]
    ELSE <<>>

SizeFrame(ppl, pid) == [pid |-> pid, kids |-> GetChildren(ppl, pid), i |-> 1, kidsW |-> 0]

\* the frame's total without the gaps between the kids
TotalWNoGaps(ppl, fr) == Max(ParentsW(Get(ppl, fr.pid)), fr.kidsW)

\* totalW of a frame whose loop over the kids is over
TotalW(ppl, fr) ==
    LET kidsW == IF fr.kids # <<>> THEN fr.kidsW + (Len(fr.kids) - 1) * H_GAP ELSE fr.kidsW
    IN Max(ParentsW(Get(ppl, fr.pid)), kidsW)

(***************************************************************************)
(* LayoutEngine::PositionSubtree, the part before its recursive calls.      *)
(***************************************************************************)
\* the loops "A. Left Spouses" / "C. Right Spouses" over spouses[from..to]:
\* a spouse that is in the store gets (cx, y) and moves cx on
RECURSIVE PlaceSpouses(_, _, _, _, _, _, _)
PlaceSpouses(ppl, sp, from, to, cx, y, xs) ==
    IF from > to THEN [people |-> ppl, cx |-> cx, xs |-> xs]
    ELSE IF Exists(ppl, sp[from])
         THEN PlaceSpouses([ppl EXCEPT ![IndexOf(ppl, sp[from])].x = cx,
                                       ![IndexOf(ppl, sp[from])].y = y],
                           sp, from + 1, to, cx + BOX_WIDTH + SPOUSE_GAP, y, xs \cup {cx})
         ELSE PlaceSpouses(ppl, sp, from + 1, to, cx, y, xs)

\* "1. Position Parents Block" for pid with its footprint starting at x
PlaceRow(ppl, pid, absoluteCenter, y) ==
    LET p == Get(ppl, pid)
        numSpouses == Len(p.spouses)
        numLeft == numSpouses \div 2
        left == PlaceSpouses(ppl, p.spouses, 1, numLeft,
                             absoluteCenter - (ParentsW(p) \div 2), y, {})
        main == [left.people EXCEPT ![IndexOf(ppl, pid)].x = left.cx,
                                    ![IndexOf(ppl, pid)].y = y]
    IN PlaceSpouses(main, p.spouses, numLeft + 1, numSpouses,
                    left.cx + BOX_WIDTH + SPOUSE_GAP, y, left.xs \cup {left.cx})

\* subtreeMetrics[k] for every kid: a missing key is inserted as {0, 0}
RECURSIVE TouchAll(_, _)
TouchAll(metrics, kids) ==
    IF kids = <<>> THEN metrics
    ELSE TouchAll(MapTouch(metrics, Head(kids), <<0, 0>>), Tail(kids))

RECURSIVE SumWidths(_, _)
SumWidths(metrics, kids) ==
    IF kids = <<>> THEN 0 ELSE metrics[Head(kids)][1] + SumWidths(metrics, Tail(kids))

SetMin(S) == CHOOSE a \in S : \A b \in S : a <= b
SetMax(S) == CHOOSE a \in S : \A b \in S : a >= b

NoSpan == <<>>
\* the horizontal span of two spans together
Join(s, t) == IF s = NoSpan THEN t ELSE IF t = NoSpan THEN s
              ELSE <<Min(s[1], t[1]), Max(s[2], t[2])>>

\* A call PositionSubtree(pid, x, y, placed, rootId) up to its loop over the
\* kids.  entered: the call got past its two early returns; frame: the call
\* goes into the loop; span: what the call positioned so far.
PosEnter(ppl, placed, metrics, owner, pid, x, y, rootId) ==
    IF OwnedElsewhere(owner, pid, rootId) \/ pid \in placed
    THEN [people |-> ppl, placed |-> placed, metrics |-> metrics,
          entered |-> FALSE, frame |-> <<>>, span |-> NoSpan]
    ELSE LET p == Get(ppl, pid)
             m1 == MapTouch(metrics, pid, <<0, 0>>)
             absoluteCenter == x + m1[pid][2]
             row == PlaceRow(ppl, pid, absoluteCenter, y)
             kids == GetChildren(ppl, pid)
             m2 == TouchAll(m1, kids)
             kidsTotalW == SumWidths(m2, kids) + (Len(kids) - 1) * H_GAP
             span == <<SetMin(row.xs), SetMax(row.xs) + BOX_WIDTH>>
         IN [people |-> row.people,
             placed |-> placed \cup {pid} \cup Range(p.spouses),
             metrics |-> IF kids = <<>> THEN m1 ELSE m2,
             entered |-> TRUE,
             frame |-> IF kids = <<>> THEN <<>>
                       ELSE <<[pid |-> pid, kids |-> kids, i |-> 1,
                               childX |-> absoluteCenter - (kidsTotalW \div 2),
                               y |-> y, span |-> span, spans |-> <<>>]>>,
             span |-> span]

(***************************************************************************)
(* LayoutEngine::FinalizeBounds.                                            *)
(***************************************************************************)
Visible(p) == p.x > VISIBLE_MIN

\* the largest left edge of a visible box, where the code takes the right edge
FinalMxLeftEdge(ppl) ==
    LET S == {ppl[i].x : i \in {j \in 1..Len(ppl) : Visible(ppl[j])}}
    IN IF S = {} THEN 0 ELSE Max(0, SetMax(S))

FinalMx(ppl) ==
    LET S == {ppl[i].x + BOX_WIDTH : i \in {j \in 1..Len(ppl) : Visible(ppl[j])}}
    IN IF S = {} THEN 0 ELSE Max(0, SetMax(S))

FinalMy(ppl) ==
    LET S == {ppl[i].y + BOX_HEIGHT : i \in {j \in 1..Len(ppl) : Visible(ppl[j])}}
    IN IF S = {} THEN 0 ELSE Max(0, SetMax(S))

(***************************************************************************)
(* The record sets a reload reads.                                          *)
(***************************************************************************)
Tok(id) == [id |-> id, ex |-> FALSE]
Row(id, fatherId, motherId, sp) ==
    [id |-> id, fatherId |-> fatherId, motherId |-> motherId,
     spouse |-> [i \in 1..Len(sp) |-> Tok(sp[i])]]

\* an id no record has: a parent or spouse reference that resolves to nobody
Dangling == MaxPeople + 4

\* What the record of each id may say, <<father, mother, spouses>>: roots,
\* couples, a chain of marriages, a spouse nobody's record, children of one
\* parent and of two, a child of nobody's record, a child whose father is
\* unknown or nobody's record and whose mother has one, a person who is their
\* own parent, a person married to their parent, a person who lists a sibling
\* as spouse.
RowChoices(id) ==
    CASE id = 1 -> {<<0, 0, <<>>>>, <<0, 0, <<2>>>>, <<0, 0, <<Dangling>>>>,
                    <<0, 0, <<2, 3>>>>, <<1, 0, <<>>>>}
      [] id = 2 -> {<<0, 0, <<>>>>, <<0, 0, <<1>>>>, <<0, 0, <<1, 3>>>>,
                    <<Dangling, 0, <<>>>>, <<1, 0, <<>>>>, <<1, 0, <<1>>>>,
                    <<0, 1, <<>>>>}
      [] id = 3 -> {<<0, 0, <<>>>>, <<0, 0, <<2>>>>, <<1, 2, <<>>>>, <<2, 0, <<>>>>,
                    <<1, 0, <<>>>>, <<Dangling, 2, <<>>>>}
      [] id = 4 -> {<<0, 0, <<>>>>, <<1, 2, <<>>>>, <<2, 1, <<>>>>, <<3, 0, <<>>>>,
                    <<1, 2, <<3>>>>}
      [] id = 5 -> {<<3, 0, <<>>>>, <<1, 2, <<>>>>}
      [] OTHER  -> {<<1, 2, <<>>>>}

RowsOf(id) == {Row(id, c[1], c[2], c[3]) : c \in RowChoices(id)}

\* the record sets of n people, ids 1..n, in id order
RECURSIVE InIdOrder(_)
InIdOrder(n) ==
    IF n = 0 THEN {<<>>}
    ELSE {Append(s, r) : s \in InIdOrder(n - 1), r \in RowsOf(n)}

Rotate(s, k) == [i \in 1..Len(s) |-> s[((i + k - 1) % Len(s)) + 1]]
Reverse(s) == [i \in 1..Len(s) |-> s[Len(s) + 1 - i]]

\* record order: every order of up to three records; of more, the id order
\* and the order with the last record moved to the front
Orders(s) ==
    IF Len(s) <= 1 THEN {s}
    ELSE IF Len(s) <= 3
    THEN {Rotate(s, k) : k \in 0..(Len(s) - 1)}
         \cup {Rotate(Reverse(s), k) : k \in 0..(Len(s) - 1)}
    ELSE {s, Rotate(s, Len(s) - 1)}

Inputs == UNION {UNION {Orders(s) : s \in InIdOrder(n)} : n \in 0..MaxPeople}

\* the record sets that are reloaded unchanged: up to MaxRerunPeople records
RerunInputs == {rows \in Inputs : Len(rows) <= MaxRerunPeople}

\* family.csv as written for a record set: the header, then one line of seven
\* columns for each record, the spouse column "0" for a record with no spouse
RECURSIVE FormatInt(_)
FormatInt(n) ==
    IF n < 10 THEN <<Digits[n + 1]>>
    ELSE FormatInt(n \div 10) \o <<Digits[(n % 10) + 1]>>

RECURSIVE FormatTokens(_)
FormatTokens(tokens) ==
    IF tokens = <<>> THEN <<>>
    ELSE FormatInt(Head(tokens).id)
         \o (IF Head(tokens).ex THEN <<"x">> ELSE <<>>)
         \o (IF Len(tokens) > 1 THEN <<"|">> ELSE <<>>)
         \o FormatTokens(Tail(tokens))

\* a data line of the columns ID, Name, Role, Gender, FatherID, MotherID,
\* SpouseID, the four numeric ones as given
LineText(id, fatherId, motherId, spouse) ==
    id \o <<",", "n", ",", "r", ",", "g", ",">> \o fatherId \o <<",">> \o motherId
       \o <<",">> \o spouse

LineOf(row) ==
    LineText(FormatInt(row.id), FormatInt(row.fatherId), FormatInt(row.motherId),
             IF row.spouse = <<>> THEN <<"0">> ELSE FormatTokens(row.spouse))

Header == <<"I", "D">>

FileOf(rows) == <<Header>> \o [i \in 1..Len(rows) |-> LineOf(rows[i])]

FilesOf(recordSets) == {FileOf(rows) : rows \in recordSets}

\* the record sets of the reload sequences: up to MaxReloadPeople records, in
\* id order
ReloadInputs == UNION {InIdOrder(n) : n \in 0..MaxReloadPeople}

\* Data lines as an editor may leave them: records that parse, and lines with
\* an identifier or a parent that is no number or a number with a tail, an
\* empty column, spouse columns with a segment that is no number, that is the
\* marker alone, that is 0, that is the record's own id, or that names one id
\* twice, a line of three columns, an empty line, a line ending in '\r'.
IdTexts == {<<"1">>, <<"2">>, <<"0">>, <<"a">>, <<"1", "a">>}
ParentTexts == {<<"0">>, <<"1">>, <<"b">>, <<>>}
SpouseTexts == {<<"0">>, <<>>, <<"2">>, <<"1">>, <<"2", "x">>, <<"a">>, <<"x">>,
                <<"2", "|", "a">>, <<"0", "|", "2">>, <<"2", "x", "|", "2">>,
                <<"2", "|", "1", "X">>, <<"2", "\r">>}

TextLines ==
    {LineText(id, <<"0">>, <<"0">>, sp) : id \in IdTexts, sp \in SpouseTexts}
    \cup {LineText(id, f, <<"0">>, <<"0">>) : id \in {<<"1">>, <<"2">>}, f \in ParentTexts}
    \cup {LineText(<<"2">>, <<"0">>, m, <<"1">>) : m \in ParentTexts}
    \cup {<<>>, <<"1", ",", "n", ",", "r">>}

\* files of a header and up to n data lines, and the empty file
RECURSIVE LinesUpTo(_)
LinesUpTo(n) ==
    IF n = 0 THEN {<<>>}
    ELSE LinesUpTo(n - 1)
         \cup {Append(ls, l) : ls \in {t \in LinesUpTo(n - 1) : Len(t) = n - 1},
                               l \in TextLines}

TextFiles(n) == {<<>>} \cup {<<Header>> \o ls : ls \in LinesUpTo(n)}

(***************************************************************************)
(* The state.                                                               *)
(***************************************************************************)
VARIABLES
    people,          \* DataModel::people
    subtreeMetrics,  \* LayoutEngine::subtreeMetrics
    nodeOwner,       \* LayoutEngine::nodeOwner
    totalWidth,      \* LayoutEngine::totalWidth
    totalHeight,     \* LayoutEngine::totalHeight
    pc,              \* where the pipeline stands
    changed, limit,  \* locals of CalculateGenerations
    idx,             \* position of the for loop over people in progress
    visited,         \* AssignOwnership's visited set
    placed,          \* Recalculate's placed set
    currentX,        \* Recalculate's cursor
    rootId,          \* the root whose cluster is being sized and positioned
    sizeStack,       \* call stack of ComputeSubtreeSize
    posStack,        \* call stack of PositionSubtree
    started,         \* the ids StartClaiming was called for, in order
    loads,           \* reloads so far
    lastRows,        \* the record set of the last reload
    prevOut,         \* what the renderer read before this reload, when it
                     \* read the same record set; <<>> otherwise
    firstRows,       \* the record set of the first reload
    firstOut,        \* what the renderer read after the first reload
    text             \* family.csv as the last reload read it

vars == <<people, subtreeMetrics, nodeOwner, totalWidth, totalHeight, pc, changed,
          limit, idx, visited, placed, currentX, rootId, sizeStack, posStack,
          started, loads, lastRows, prevOut, firstRows, firstOut, text>>

history == <<lastRows, prevOut, firstRows, firstOut, text>>
engine == <<subtreeMetrics, nodeOwner, totalWidth, totalHeight>>
locals == <<changed, limit, idx, visited, placed, currentX, rootId, sizeStack, posStack>>

\* what the renderer reads: each entity's generation and position, and the
\* canvas extent
Snapshot ==
    [layout |-> [i \in 1..Len(people) |->
                    [id |-> people[i].id, gen |-> people[i].gen,
                     x |-> people[i].x, y |-> people[i].y]],
     totalWidth |-> totalWidth, totalHeight |-> totalHeight]

\* FamilyTreeApp(): an empty DataModel and a LayoutEngine with its defaults
Init ==
    /\ people = <<>>
    /\ subtreeMetrics = EmptyMap
    /\ nodeOwner = EmptyMap
    /\ totalWidth = DEFAULT_TOTAL
    /\ totalHeight = DEFAULT_TOTAL
    /\ pc = "idle"
    /\ changed = TRUE
    /\ limit = 0
    /\ idx = 1
    /\ visited = {}
    /\ placed = {}
    /\ currentX = ANCHOR
    /\ rootId = 0
    /\ sizeStack = <<>>
    /\ posStack = <<>>
    /\ started = <<>>
    /\ loads = 0
    /\ lastRows = <<>>
    /\ prevOut = <<>>
    /\ firstRows = <<>>
    /\ firstOut = <<>>
    /\ text = <<>>

\* locals that keep the `changed` of the run before
StaleLocals ==
    /\ UNCHANGED changed
    /\ limit' = 0
    /\ idx' = 1
    /\ visited' = {}
    /\ placed' = {}
    /\ currentX' = ANCHOR
    /\ rootId' = 0
    /\ sizeStack' = <<>>
    /\ posStack' = <<>>
    /\ started' = <<>>

\* the locals of Recalculate and of the passes it calls, at their start
FreshLocals ==
    /\ changed' = TRUE
    /\ limit' = 0
    /\ idx' = 1
    /\ visited' = {}
    /\ placed' = {}
    /\ currentX' = ANCHOR
    /\ rootId' = 0
    /\ sizeStack' = <<>>
    /\ posStack' = <<>>
    /\ started' = <<>>

(***************************************************************************)
(* FamilyTreeApp::ReloadData: LoadFromFile, then Recalculate up to and      *)
(* including ResetState.  An empty store makes Recalculate return at once.  *)
(***************************************************************************)
ReloadData(files, maxLoads) ==
    /\ pc \in {"idle", "done"}
    /\ loads < maxLoads
    /\ \E file \in files :
        LET rows == ReadRows(file)
            loaded == LoadFromFile(rows)
        IN /\ loads' = loads + 1
           /\ text' = file
           /\ lastRows' = rows
           /\ prevOut' = IF loads > 0 /\ rows = lastRows THEN <<Snapshot>> ELSE <<>>
           /\ firstRows' = IF loads = 0 THEN rows ELSE firstRows
           /\ firstOut' = IF loads = 1 THEN <<Snapshot>> ELSE firstOut
           /\ FreshLocals
           /\ IF loaded = <<>>
              THEN /\ people' = loaded
                   /\ pc' = "done"
                   /\ UNCHANGED engine
              ELSE /\ people' = ResetPeople(loaded)
                   /\ subtreeMetrics' = EmptyMap
                   /\ nodeOwner' = EmptyMap
                   /\ pc' = "gens"
                   /\ UNCHANGED <<totalWidth, totalHeight>>

(***************************************************************************)
(* CalculateGenerations: one iteration of the while loop, and the exit      *)
(* with the fallback.                                                       *)
(***************************************************************************)
CalculateGenerationsScan ==
    /\ pc = "gens"
    /\ changed /\ limit < GEN_LIMIT
    /\ LET r == GenScan(people, 1, FALSE)
       IN /\ people' = r.people
          /\ changed' = r.changed
    /\ limit' = limit + 1
    /\ UNCHANGED <<engine, pc, idx, visited, placed, currentX, rootId, sizeStack,
                   posStack, started, loads, history>>

CalculateGenerationsFallback ==
    /\ pc = "gens"
    /\ ~(changed /\ limit < GEN_LIMIT)
    /\ people' = GenFallback(people)
    /\ pc' = "own"
    /\ UNCHANGED <<engine, changed, limit, idx, visited, placed, currentX, rootId,
                   sizeStack, posStack, started, loads, history>>

(***************************************************************************)
(* AssignOwnership: one iteration of its for loop; after the last one       *)
(* Recalculate goes on to its own loop.                                     *)
(***************************************************************************)
AssignOwnership ==
    /\ pc = "own"
    /\ IF StartsCluster(people, idx, visited)
       THEN LET r == StartClaiming(people, people[idx].id, visited, nodeOwner)
            IN /\ visited' = r.visited
               /\ nodeOwner' = r.owner
               /\ started' = Append(started, people[idx].id)
       ELSE UNCHANGED <<visited, nodeOwner, started>>
    /\ IF idx < Len(people)
       THEN /\ idx' = idx + 1
            /\ pc' = "own"
       ELSE /\ idx' = 1
            /\ pc' = "layout"
    /\ UNCHANGED <<people, subtreeMetrics, totalWidth, totalHeight, changed, limit,
                   placed, currentX, rootId, sizeStack, posStack, loads, history>>

(***************************************************************************)
(* Recalculate's loop over people: an iteration that lays nothing out.      *)
(* The "Sanity" test reads nodeOwner[p.id], which inserts a missing key.    *)
(***************************************************************************)
IsLayoutCandidate(p) == p.gen = 0 /\ p.id \notin placed /\ ~(p.id > MinId(p))

RecalculateSkip ==
    /\ pc = "layout"
    /\ idx <= Len(people)
    /\ LET p == people[idx]
       IN /\ ~(IsLayoutCandidate(p) /\ MapGet(nodeOwner, p.id, 0) = p.id)
          /\ nodeOwner' = IF IsLayoutCandidate(p) THEN MapTouch(nodeOwner, p.id, 0)
                          ELSE nodeOwner
    /\ idx' = idx + 1
    /\ UNCHANGED <<people, subtreeMetrics, totalWidth, totalHeight, pc, changed, limit,
                   visited, placed, currentX, rootId, sizeStack, posStack, started, loads, history>>

(***************************************************************************)
(* Recalculate's loop: a canonical root.  The gap, then the call            *)
(* ComputeSubtreeSize(p.id, p.id) up to its loop over the kids.             *)
(***************************************************************************)
RecalculateRoot ==
    /\ pc = "layout"
    /\ idx <= Len(people)
    /\ LET p == people[idx]
           conn == IsConnectedToPlaced(people, 1, p.id, placed, nodeOwner)
           gap == IF placed = {} THEN 0 ELSE IF conn.result THEN H_GAP ELSE TREE_GAP
       IN /\ IsLayoutCandidate(p) /\ MapGet(nodeOwner, p.id, 0) = p.id
          /\ nodeOwner' = IF placed = {} THEN nodeOwner ELSE conn.owner
          /\ currentX' = currentX + gap
          /\ rootId' = p.id
          /\ sizeStack' = IF SizeShortcut(nodeOwner', subtreeMetrics, p.id, p.id) = <<>>
                          THEN <<SizeFrame(people, p.id)>>
                          ELSE <<>>
    /\ pc' = "size"
    /\ UNCHANGED <<people, subtreeMetrics, totalWidth, totalHeight, changed, limit, idx,
                   visited, placed, posStack, started, loads, history>>

(***************************************************************************)
(* ComputeSubtreeSize: the loop "for (int k : kids)" of the top frame makes *)
(* its next call, which returns at once or opens a frame.                   *)
(***************************************************************************)
ComputeSubtreeSizeCall ==
    /\ pc = "size"
    /\ sizeStack # <<>>
    /\ LET n == Len(sizeStack)
           top == sizeStack[n]
       IN /\ top.i <= Len(top.kids)
          /\ LET k == top.kids[top.i]
                 sc == SizeShortcut(nodeOwner, subtreeMetrics, k, rootId)
             IN /\ sc # <<>> \/ n < StackLimit
                /\ sizeStack' =
                     IF sc # <<>>
                     THEN [sizeStack EXCEPT ![n].kidsW = top.kidsW + sc[1],
                                            ![n].i = top.i + 1]
                     ELSE Append(sizeStack, SizeFrame(people, k))
    /\ UNCHANGED <<people, engine, pc, changed, limit, idx, visited, placed, currentX,
                   rootId, posStack, started, loads, history>>

\* the recursion is deeper than the stack: the process dies
ComputeSubtreeSizeOverflow ==
    /\ pc = "size"
    /\ sizeStack # <<>>
    /\ LET n == Len(sizeStack)
           top == sizeStack[n]
       IN /\ top.i <= Len(top.kids)
          /\ SizeShortcut(nodeOwner, subtreeMetrics, top.kids[top.i], rootId) = <<>>
          /\ n >= StackLimit
    /\ pc' = "crashed"
    /\ UNCHANGED <<people, engine, changed, limit, idx, visited, placed, currentX,
                   rootId, sizeStack, posStack, started, loads, history>>

\* the top frame's loop is over: memoize and return to the caller
ComputeSubtreeSizeReturn ==
    /\ pc = "size"
    /\ sizeStack # <<>>
    /\ LET n == Len(sizeStack)
           top == sizeStack[n]
           totalW == TotalW(people, top)
       IN /\ top.i > Len(top.kids)
          /\ subtreeMetrics' = MapPut(subtreeMetrics, top.pid, <<totalW, totalW \div 2>>)
          /\ sizeStack' =
               IF n = 1 THEN <<>>
               ELSE [SubSeq(sizeStack, 1, n - 1) EXCEPT
                        ![n - 1].kidsW = sizeStack[n - 1].kidsW + totalW,
                        ![n - 1].i = sizeStack[n - 1].i + 1]
    /\ UNCHANGED <<people, nodeOwner, totalWidth, totalHeight, pc, changed, limit, idx,
                   visited, placed, currentX, rootId, posStack, started, loads, history>>

(***************************************************************************)
(* PositionSubtree(p.id, currentX, currentY, placed, p.id) from Recalculate.*)
(***************************************************************************)
PositionSubtreeRoot ==
    /\ pc = "size"
    /\ sizeStack = <<>>
    /\ LET r == PosEnter(people, placed, subtreeMetrics, nodeOwner,
                         rootId, currentX, ANCHOR, rootId)
       IN /\ people' = r.people
          /\ placed' = r.placed
          /\ subtreeMetrics' = r.metrics
          /\ posStack' = r.frame
    /\ pc' = "pos"
    /\ UNCHANGED <<nodeOwner, totalWidth, totalHeight, changed, limit, idx, visited,
                   currentX, rootId, sizeStack, started, loads, history>>

\* what a finished call of kid number i leaves in its caller's frame
NoteSpan(fr, span) ==
    [fr EXCEPT !.spans = Append(fr.spans, span), !.span = Join(fr.span, span)]

\* the loop "for (int k : kids)" of the top frame makes its next call
PositionSubtreeCall ==
    /\ pc = "pos"
    /\ posStack # <<>>
    /\ LET n == Len(posStack)
           top == posStack[n]
       IN /\ top.i <= Len(top.kids)
          /\ LET k == top.kids[top.i]
                 r == PosEnter(people, placed, subtreeMetrics, nodeOwner,
                               k, top.childX, top.y + V_GAP, rootId)
                 moved == [top EXCEPT !.i = top.i + 1,
                                      !.childX = top.childX + r.metrics[k][1] + H_GAP]
             IN /\ people' = r.people
                /\ placed' = r.placed
                /\ subtreeMetrics' = r.metrics
                /\ posStack' =
                     IF r.frame = <<>>
                     THEN [posStack EXCEPT ![n] = NoteSpan(moved, r.span)]
                     ELSE [posStack EXCEPT ![n] = moved] \o r.frame
    /\ UNCHANGED <<nodeOwner, totalWidth, totalHeight, pc, changed, limit, idx, visited,
                   currentX, rootId, sizeStack, started, loads, history>>

\* the top frame's loop is over: return to the caller
PositionSubtreeReturn ==
    /\ pc = "pos"
    /\ posStack # <<>>
    /\ LET n == Len(posStack)
           top == posStack[n]
       IN /\ top.i > Len(top.kids)
          /\ posStack' =
               IF n = 1 THEN <<>>
               ELSE [SubSeq(posStack, 1, n - 1) EXCEPT
                        ![n - 1] = NoteSpan(posStack[n - 1], top.span)]
    /\ UNCHANGED <<people, engine, pc, changed, limit, idx, visited, placed, currentX,
                   rootId, sizeStack, started, loads, history>>

\* back in Recalculate: currentX += subtreeMetrics[p.id].first
RecalculateAdvance ==
    /\ pc = "pos"
    /\ posStack = <<>>
    /\ subtreeMetrics' = MapTouch(subtreeMetrics, rootId, <<0, 0>>)
    /\ currentX' = currentX + subtreeMetrics'[rootId][1]
    /\ idx' = idx + 1
    /\ pc' = "layout"
    /\ UNCHANGED <<people, nodeOwner, totalWidth, totalHeight, changed, limit, visited,
                   placed, rootId, sizeStack, posStack, started, loads, history>>

(***************************************************************************)
(* The loop of Recalculate is over: FinalizeBounds.                         *)
(***************************************************************************)
FinalizeBounds ==
    /\ pc = "layout"
    /\ idx > Len(people)
    /\ totalWidth' = FinalMx(people) + MARGIN
    /\ totalHeight' = FinalMy(people) + MARGIN
    /\ pc' = "done"
    /\ UNCHANGED <<people, subtreeMetrics, nodeOwner, changed, limit, idx, visited,
                   placed, currentX, rootId, sizeStack, posStack, started, loads, history>>

Pipeline ==
    \/ CalculateGenerationsScan
    \/ CalculateGenerationsFallback
    \/ AssignOwnership
    \/ RecalculateSkip
    \/ RecalculateRoot
    \/ ComputeSubtreeSizeCall
    \/ ComputeSubtreeSizeOverflow
    \/ ComputeSubtreeSizeReturn
    \/ PositionSubtreeRoot
    \/ PositionSubtreeCall
    \/ PositionSubtreeReturn
    \/ RecalculateAdvance
    \/ FinalizeBounds

\* the application loads its file once (FamilyTreeApp::Init)
Load == ReloadData(FilesOf(Inputs), 1)
Next == Load \/ Pipeline
Spec == Init /\ [][Next]_vars

\* the file changes and the timer reloads it (FamilyTreeApp::OnTimer)
Reload == ReloadData(FilesOf(ReloadInputs), MaxLoads)
NextReload == Reload \/ Pipeline
SpecReload == Init /\ [][NextReload]_vars

\* the file is written again with the content it had, and the timer reloads it
LoadFirst == ReloadData(FilesOf(RerunInputs), 1)
Rerun == loads >= 1 /\ ReloadData({text}, 1 + MaxReruns)
NextRerun == LoadFirst \/ Rerun \/ Pipeline
SpecRerun == Init /\ [][NextRerun]_vars

\* the application loads a file that an editor left in any state
LoadText == ReloadData(TextFiles(MaxTextLines), 1)
NextText == LoadText \/ Pipeline
SpecText == Init /\ [][NextText]_vars

Done == pc = "done"

(***************************************************************************)
(* What the claims speak of.                                                *)
(***************************************************************************)
\* CalculateGenerations has returned
AfterGenerations == pc \notin {"idle", "gens"}

\* AssignOwnership has returned
AfterOwnership == pc \in {"layout", "size", "pos", "crashed", "done"}

\* the parents of p that resolve to an entity of the store
ResolvedParents(p) == {q \in {p.fatherId, p.motherId} : Exists(people, q)}

\* nobody is their own father or mother
NoSelfParent == \A i \in 1..Len(people) : people[i].id \notin ResolvedParents(people[i])

\* the owner the map gives id, 0 when it gives none
OwnerOf(id) == MapGet(nodeOwner, id, 0)

\* the entities i and j are two who list each other as spouse, at generation 0
MarriedRoots(i, j) ==
    /\ people[i].id # people[j].id
    /\ people[i].gen = 0 /\ people[j].gen = 0
    /\ people[j].id \in Range(people[i].spouses)
    /\ people[i].id \in Range(people[j].spouses)

\* StartClaiming was called for id
Started(id) == id \in Range(started)

\* the ids one spouse edge or child edge away from the ids of S
Step(S) ==
    UNION {Range(Get(people, e).spouses) \cup KidSet(people, e) :
             e \in {f \in S : Exists(people, f)}}

\* the ids reachable from the ids of S over spouse and child edges
RECURSIVE ReachFrom(_)
ReachFrom(S) ==
    LET T == S \cup Step(S)
    IN IF T = S THEN S ELSE ReachFrom(T)

\* what is reachable from each started root, in the order they started
ReachOfRoots == [k \in 1..Len(started) |-> ReachFrom({started[k]})]

\* the positions in `started` of the roots from which id is reachable
RootsReaching(id) == {k \in 1..Len(started) : id \in ReachOfRoots[k]}

\* the boxes of people[i] and people[j] overlap
Overlap(i, j) ==
    /\ people[i].y - people[j].y < BOX_HEIGHT /\ people[j].y - people[i].y < BOX_HEIGHT
    /\ people[i].x - people[j].x < BOX_WIDTH /\ people[j].x - people[i].x < BOX_WIDTH

AtSentinel(p) == p.x = SENTINEL /\ p.y = SENTINEL

C2_SiblingSpansDisjoint ==
    \A f \in 1..Len(posStack) :
        \A j \in 1..(Len(posStack[f].spans) - 1) :
            (posStack[f].spans[j] # NoSpan /\ posStack[f].spans[j + 1] # NoSpan) =>
                posStack[f].spans[j][2] <= posStack[f].spans[j + 1][1]

(***************************************************************************)
(* C3.  At the end of Recalculate no two distinct entities with valid       *)
(* coordinates have overlapping boxes.                                      *)
(***************************************************************************)
C3_NoOverlap ==
    Done =>
        \A i, j \in 1..Len(people) :
            (i # j /\ Visible(people[i]) /\ Visible(people[j])) => ~Overlap(i, j)

C5_ReachableOwnedByRoot ==
    AfterOwnership =>
        \A k \in 1..Len(started) :
            \A e \in ReachFrom({started[k]}) \cap Ids(people) : OwnerOf(e) = started[k]

(***************************************************************************)
(* C5, amended.  After AssignOwnership every entity reachable from some     *)
(* root is owned by the first started of the roots it is reachable from,    *)
(* and an entity reachable from no root has no owner.                       *)
(***************************************************************************)
C5_OwnedByFirstRoot ==
    AfterOwnership =>
        LET reach == ReachOfRoots
        IN \A e \in Ids(people) :
              LET roots == {k \in 1..Len(started) : e \in reach[k]}
              IN IF roots = {} THEN OwnerOf(e) = 0
                 ELSE OwnerOf(e) = started[SetMin(roots)]

\* C5, witness: after AssignOwnership an entity is reachable from two roots
\* and another from none
C5_Witness ==
    /\ AfterOwnership
    /\ \E e \in Ids(people) : Cardinality(RootsReaching(e)) >= 2
    /\ \E e \in Ids(people) : RootsReaching(e) = {}

(***************************************************************************)
(* C6.  A pipeline run terminates for every record set: the relaxation      *)
(* stops within its number of scans and the recursions return.              *)
(***************************************************************************)
C6_RunTerminates == limit <= GEN_LIMIT /\ pc # "crashed"

(***************************************************************************)
(* C7.  A reload of the record set the run before read gives every entity   *)
(* the same generation, x and y and the canvas the same width and height.   *)
(***************************************************************************)
C7_SameInputSameLayout == (Done /\ prevOut # <<>>) => Snapshot = prevOut[1]

\* C7, witness: the second of two runs on one record set is over, and it
\* positioned an entity below the first row
C7_Witness ==
    /\ Done /\ prevOut # <<>>
    /\ \E i \in 1..Len(people) : people[i].gen > 0 /\ Visible(people[i])

(***************************************************************************)
(* C8.  After any sequence of reloads the renderer reads what a freshly     *)
(* constructed engine produces from the last record set alone: when the     *)
(* last record set is the one the fresh engine read first, what it read     *)
(* then.                                                                    *)
(***************************************************************************)
C8_ReloadReplacesAll ==
    (Done /\ loads >= 2 /\ lastRows = firstRows) => Snapshot = firstOut[1]

(***************************************************************************)
(* C9.  An entity no root's claiming traversal reached is at the sentinel   *)
(* position at every step of sizing and positioning and at the end of       *)
(* Recalculate.                                                             *)
(***************************************************************************)
C9_UnreachedStaysHidden ==
    AfterOwnership =>
        \A i \in 1..Len(people) : people[i].id \notin visited => AtSentinel(people[i])

\* C9, witness: a finished pass that positioned an entity and reached
\* another one not at all
C9_Witness ==
    /\ Done
    /\ \E i \in 1..Len(people) : people[i].id \notin visited
    /\ \E i \in 1..Len(people) : Visible(people[i])

(***************************************************************************)
(* C10.  At the end of a pass every entity is either claimed and at valid   *)
(* coordinates or unclaimed and at the sentinel position.                   *)
(***************************************************************************)
C10_PositionedOrHidden ==
    Done =>
        \A i \in 1..Len(people) :
            IF OwnerOf(people[i].id) # 0 THEN Visible(people[i])
            ELSE AtSentinel(people[i])

(***************************************************************************)
(* C11.  An identifier with no record is treated as absent: the layout is   *)
(* the one of the record set with every such identifier removed (a parent   *)
(* id set to 0, a spouse id dropped).  Stated on what the renderer reads:   *)
(* generations, positions and the canvas extent.                            *)
(***************************************************************************)
\* the ids that have a record among rows
RowIds(rows) == {rows[i].id : i \in 1..Len(rows)}

\* the tokens of a spouse field whose id has a record
RECURSIVE KnownTokens(_, _)
KnownTokens(tokens, known) ==
    IF tokens = <<>> THEN <<>>
    ELSE (IF Head(tokens).id \in known THEN <<Head(tokens)>> ELSE <<>>)
         \o KnownTokens(Tail(tokens), known)

\* rows with every identifier that has no record removed
Strip(rows) ==
    [i \in 1..Len(rows) |->
        [id |-> rows[i].id,
         fatherId |-> IF rows[i].fatherId \in RowIds(rows) THEN rows[i].fatherId ELSE 0,
         motherId |-> IF rows[i].motherId \in RowIds(rows) THEN rows[i].motherId ELSE 0,
         spouse |-> KnownTokens(rows[i].spouse, RowIds(rows))]]

\* C11: the second load read the first record set without the identifiers
\* that have no record, and the renderer reads what it read after the first
C11_DanglingAsAbsent ==
    (Done /\ loads = 2 /\ LoadFromFile(lastRows) = LoadFromFile(Strip(firstRows)))
        => Snapshot = firstOut[1]

(***************************************************************************)
(* C12.  An entity whose father id has no record and whose mother exists    *)
(* and is owned by a root is owned by that root and positioned one row      *)
(* below its mother.                                                        *)
(***************************************************************************)
C12_ChildUnderMother ==
    Done =>
        \A i \in 1..Len(people) :
            (/\ ~Exists(people, people[i].fatherId)
             /\ Exists(people, people[i].motherId)
             /\ OwnerOf(people[i].motherId) # 0) =>
                /\ OwnerOf(people[i].id) = OwnerOf(people[i].motherId)
                /\ Visible(people[i])
                /\ people[i].y = Get(people, people[i].motherId).y + V_GAP

(***************************************************************************)
(* C13.  A couple who list only each other, one of them the main entity of  *)
(* a parents row, and their children, all owned by the root: the children   *)
(* are placed in ascending id order, each inside its own footprint, the     *)
(* footprints side by side one row below, and the block of footprints is    *)
(* centered under the parents row to within one unit.                       *)
(***************************************************************************)
\* the frame is the row of a couple who list only each other, and every kid
\* of the row has the two of them as father and mother and the root as owner
CoupleRow(fr) ==
    LET a == Get(people, fr.pid)
    IN /\ Len(a.spouses) = 1
       /\ a.spouses[1] # a.id
       /\ Exists(people, a.spouses[1])
       /\ Get(people, a.spouses[1]).spouses = <<a.id>>
       /\ \A j \in 1..Len(fr.kids) :
             /\ {Get(people, fr.kids[j]).fatherId, Get(people, fr.kids[j]).motherId}
                   = {a.id, a.spouses[1]}
             /\ OwnerOf(fr.kids[j]) = rootId

\* the loop over the kids of the frame is over
RowComplete(fr) == fr.i > Len(fr.kids)

\* the width of the footprints of kids 1..n of the frame and the gaps between
BlockW(fr, n) ==
    IF n = 0 THEN 0
    ELSE SumWidths(subtreeMetrics, SubSeq(fr.kids, 1, n)) + (n - 1) * H_GAP

\* where the block of footprints starts, childX having moved past all of it
BlockStart(fr) == fr.childX - H_GAP - BlockW(fr, Len(fr.kids))

\* where the footprint of kid j starts
FootprintStart(fr, j) ==
    BlockStart(fr) + (IF j = 1 THEN 0 ELSE BlockW(fr, j - 1) + H_GAP)

\* what the claim says of the complete row fr of such a couple
ChildrenCentered(fr) ==
    LET a == Get(people, fr.pid)
        b == Get(people, a.spouses[1])
    IN /\ \A j \in 1..(Len(fr.kids) - 1) : fr.kids[j] < fr.kids[j + 1]
       /\ \A j \in 1..Len(fr.kids) :
             LET k == Get(people, fr.kids[j])
             IN /\ k.y = a.y + V_GAP
                /\ k.x >= FootprintStart(fr, j)
                /\ k.x + BOX_WIDTH
                      <= FootprintStart(fr, j) + subtreeMetrics[fr.kids[j]][1]
       /\ LET twiceBlockMid == 2 * BlockStart(fr) + BlockW(fr, Len(fr.kids))
              twiceRowMid == Min(a.x, b.x) + Max(a.x, b.x) + BOX_WIDTH
          IN twiceBlockMid - twiceRowMid <= 2 /\ twiceRowMid - twiceBlockMid <= 2

\* C13: in every complete row of such a couple the children are in ascending
\* id order, one row below, inside their footprints, the block centered
C13_CoupleChildrenCentered ==
    \A f \in 1..Len(posStack) :
        (RowComplete(posStack[f]) /\ CoupleRow(posStack[f])) =>
            ChildrenCentered(posStack[f])

(***************************************************************************)
(* C14.  The clusters are laid out left to right in record order.  The     *)
(* footprint of the first starts at x = 50; the footprint of a later one   *)
(* starts at the right edge of the footprint before it plus H_GAP when an  *)
(* entity the new cluster owns has a parent, a child or a spouse that is   *)
(* already placed, plus TREE_GAP when none has.                            *)
(***************************************************************************)
\* the entities marked placed
PlacedEntities == {id \in placed : Exists(people, id)}

\* an entity root owns has a parent, a child or a spouse among the placed
RelatedToPlaced(root) ==
    \E i \in 1..Len(people) :
        /\ OwnerOf(people[i].id) = root
        /\ \/ people[i].fatherId \in PlacedEntities
           \/ people[i].motherId \in PlacedEntities
           \/ Range(people[i].spouses) \cap PlacedEntities # {}
           \/ KidSet(people, people[i].id) \cap PlacedEntities # {}

\* the step of Recalculate's loop that starts the layout of a cluster
StartsLayout == pc = "layout" /\ pc' = "size"

\* the step of Recalculate's loop that ends the layout of a cluster
EndsLayout == pc = "pos" /\ pc' = "layout"

LoneEntity ==
    /\ Len(people) = 1
    /\ people[1].fatherId = 0 /\ people[1].motherId = 0
    /\ people[1].spouses = <<>>

\* the entities with valid coordinates
ValidCoordinates == {i \in 1..Len(people) : Visible(people[i])}

\* C15: at the end of a pass a lone entity is at generation 0 and at the
\* anchor, the canvas one box and the margin; whenever some entity has valid
\* coordinates the canvas is the largest x and y among them plus box and margin
C15_CanvasFromMaxima ==
    Done =>
        /\ LoneEntity =>
              /\ people[1].gen = 0
              /\ people[1].x = ANCHOR /\ people[1].y = ANCHOR
              /\ totalWidth = ANCHOR + BOX_WIDTH + MARGIN
              /\ totalHeight = ANCHOR + BOX_HEIGHT + MARGIN
        /\ ValidCoordinates # {} =>
              /\ totalWidth = SetMax({people[i].x : i \in ValidCoordinates}) + BOX_WIDTH + MARGIN
              /\ totalHeight = SetMax({people[i].y : i \in ValidCoordinates}) + BOX_HEIGHT + MARGIN

\* C15, witness: a pass ended with an entity hidden and the canvas wider and
\* higher than one box and the margin
C15_Witness ==
    /\ Done
    /\ \E i \in 1..Len(people) : ~Visible(people[i])
    /\ totalWidth > ANCHOR + BOX_WIDTH + MARGIN
    /\ totalHeight > ANCHOR + BOX_HEIGHT + MARGIN

(***************************************************************************)
(* C16.  A record that fails to parse (an identifier or a parent identifier *)
(* that is no number, a malformed spouse token) is skipped entirely, and    *)
(* every well-formed record is loaded.                                      *)
(***************************************************************************)
\* the columns of a data line, the line ending apart: the texts between the
\* commas, the one after the last comma included
Columns(raw) ==
    LET line == IF raw # <<>> /\ raw[Len(raw)] = "\r"
                THEN SubSeq(raw, 1, Len(raw) - 1) ELSE raw
    IN Split(Append(line, ","), ",")

\* s is a number: digits and nothing else
IsNumber(s) == s # <<>> /\ \A i \in 1..Len(s) : IsDigit(s[i])

\* a spouse token: a number, with or without the marker after it
IsSpouseToken(s) ==
    \/ IsNumber(s)
    \/ Len(s) > 1 /\ s[Len(s)] \in {"x", "X"} /\ IsNumber(SubSeq(s, 1, Len(s) - 1))

\* the line has the seven columns, numbers for the identifier and the parents
\* and a spouse column that is empty or made of spouse tokens
WellFormed(raw) ==
    LET c == Columns(raw)
    IN /\ Len(c) >= 7
       /\ IsNumber(c[1]) /\ IsNumber(c[5]) /\ IsNumber(c[6])
       /\ \A t \in Range(Split(Append(c[7], "|"), "|")) : t = <<>> => c[7] = <<>>
       /\ \A t \in Range(Split(c[7], "|")) : IsSpouseToken(t)

\* the relationship fields of the store
Relations(ppl) ==
    [i \in 1..Len(ppl) |->
        [id |-> ppl[i].id, fatherId |-> ppl[i].fatherId, motherId |-> ppl[i].motherId,
         spouses |-> ppl[i].spouses, exSpouses |-> ppl[i].exSpouses]]

\* C16: after a load the store holds the records of the well-formed data
\* lines, in their order, and nothing of any other line
C16_UnparsableSkipped ==
    (loads >= 1 /\ text # <<>>) =>
        /\ \A i \in 2..Len(text) : WellFormed(text[i]) => ParseLine(text[i]) # <<>>
        /\ Relations(people) =
              Relations(LoadFromFile(ParseLines(SelectSeq(Tail(text), WellFormed))))

(***************************************************************************)
(* C17.  After every load the store satisfies its invariants: identifiers   *)
(* unique and not 0; no spouse list with 0 or the entity's own identifier;  *)
(* spouse order the input order; the former-spouse set inside the spouse    *)
(* list, a spouse being former exactly when its own token had the marker.   *)
(***************************************************************************)
\* the tokens of record i that name a spouse
SpouseTokens(i) == SelectSeq(lastRows[i].spouse, LAMBDA t : t.id # 0)

UniqueIds == \A i, j \in 1..Len(people) : i # j => people[i].id # people[j].id

NoZeroId == \A i \in 1..Len(people) : people[i].id # 0

NoZeroOrSelfSpouse ==
    \A i \in 1..Len(people) :
        0 \notin Range(people[i].spouses) /\ people[i].id \notin Range(people[i].spouses)

SpousesInInputOrder ==
    \A i \in 1..Len(people) :
        people[i].spouses = [j \in 1..Len(SpouseTokens(i)) |-> SpouseTokens(i)[j].id]

FormerByOwnToken ==
    \A i \in 1..Len(people) :
        /\ people[i].exSpouses \subseteq Range(people[i].spouses)
        /\ \A j \in 1..Len(SpouseTokens(i)) :
              SpouseTokens(i)[j].id \in people[i].exSpouses <=> SpouseTokens(i)[j].ex

\* C17: once a load has happened the store satisfies every one of its invariants
C17_StoreInvariants ==
    loads >= 1 =>
        /\ UniqueIds
        /\ NoZeroId
        /\ NoZeroOrSelfSpouse
        /\ SpousesInInputOrder
        /\ FormerByOwnToken

(***************************************************************************)
(* C18.  First claim wins: the owner of an entity is the first root, in the *)
(* order the roots start their traversals, from which the entity is         *)
(* reachable over spouse and child edges; an owner once given is never      *)
(* changed by a later traversal; a later traversal neither enqueues nor     *)
(* passes through an entity visited before.                                 *)
(***************************************************************************)
\* the ids a traversal from the ids of S reaches without entering `avoid`
RECURSIVE ReachAvoiding(_, _)
ReachAvoiding(S, avoid) ==
    LET T == S \cup (Step(S) \ avoid)
    IN IF T = S THEN S ELSE ReachAvoiding(T, avoid)

\* every entity has for owner the first started root it is reachable from,
\* and none when it is reachable from no started root
FirstRootOwns ==
    LET reach == ReachOfRoots
    IN \A e \in Ids(people) :
          LET roots == {k \in 1..Len(started) : e \in reach[k]}
          IN OwnerOf(e) = IF roots = {} THEN 0 ELSE started[SetMin(roots)]

\* the step is a traversal: AssignOwnership calls StartClaiming
Traversal == pc = "own" /\ started' # started

\* AssignOwnership has just returned to Recalculate
OwnershipReturned == pc = "layout" /\ idx = 1

\* C18: a traversal claims for its root exactly what it reaches without
\* entering what was visited before, and leaves every owner it finds as it
\* is; no step of a pass changes an owner; when AssignOwnership returns,
\* every entity is owned by the first root it is reachable from
C18_FirstClaimWins ==
    [][/\ Traversal =>
            LET root == started'[Len(started')]
            IN /\ visited' \ visited = ReachAvoiding({root}, visited)
               /\ \A id \in visited' \ visited : nodeOwner'[id] = root
       /\ loads' = loads =>
            \A id \in DOMAIN nodeOwner :
                nodeOwner[id] # 0 => id \in DOMAIN nodeOwner' /\ nodeOwner'[id] = nodeOwner[id]
       /\ OwnershipReturned => FirstRootOwns]_vars

\* C18, witness: after AssignOwnership a root that started second or later
\* reaches an entity that an earlier root owns
C18_Witness ==
    /\ AfterOwnership
    /\ \E k \in 2..Len(started) :
          \E e \in ReachFrom({started[k]}) \cap Ids(people) :
              \E j \in 1..(k - 1) : OwnerOf(e) = started[j]

(***************************************************************************)
(* C19.  Within one layout pass the coordinates of an entity are assigned   *)
(* at most once: once it is marked placed, as the main entity of a parents  *)
(* row or as one of its spouses, no later step of PositionSubtree changes   *)
(* its x or y.                                                              *)
(***************************************************************************)
\* the step belongs to one pass: it is not a reload
SamePass == loads' = loads

\* C19: no step of a pass changes the x or the y of an entity marked placed
C19_PlacedOnce ==
    [][SamePass =>
          \A i \in 1..Len(people) :
              people[i].id \in placed =>
                  people'[i].x = people[i].x /\ people'[i].y = people[i].y]_vars

(***************************************************************************)
(* C20.  ComputeSubtreeSize terminates on every record set whose parent     *)
(* relation is acyclic (no entity is its own ancestor), the record sets     *)
(* included in which the child set of an entity (its own children and the   *)
(* children of its spouses) leads back to the entity through marriages.     *)
(***************************************************************************)
\* the ids of the parents of the ids of S that have a record
ParentsOf(S) ==
    UNION {ResolvedParents(Get(people, e)) : e \in {f \in S : Exists(people, f)}}

\* the ancestors of the ids of S: their parents, and the ancestors of those
RECURSIVE AncestorsOf(_, _)
AncestorsOf(S, found) ==
    LET more == ParentsOf(S) \ found
    IN IF more = {} THEN found ELSE AncestorsOf(more, found \cup more)

\* no entity is its own ancestor
AcyclicParents == \A e \in Ids(people) : e \notin AncestorsOf({e}, {})

\* C20: on a record set whose parent relation is acyclic the recursion of
\* ComputeSubtreeSize never runs out of stack
C20_SizeTerminates == AcyclicParents => pc # "crashed"

\* C21: at the end of a pass every entity with valid coordinates stands at the
\* vertical position of its generation, y = 50 + generation * V_GAP
C21_RowMatchesGeneration ==
    Done =>
        \A i \in ValidCoordinates :
            people[i].y = ANCHOR + people[i].gen * V_GAP

\* the footprint ComputeSubtreeSize(k, root) hands back once k is settled:
\* nothing for an entity of another root, the memoized pair otherwise
Returned(owner, metrics, k, root) ==
    IF OwnedElsewhere(owner, k, root) THEN <<0, 0>> ELSE metrics[k]

RECURSIVE FootprintSum(_, _, _, _)
FootprintSum(owner, metrics, kids, root) ==
    IF kids = <<>> THEN 0
    ELSE Returned(owner, metrics, Head(kids), root)[1]
            + FootprintSum(owner, metrics, Tail(kids), root)

\* the children's footprints as returned for the root, H_GAP between
\* consecutive children, 0 without children
ChildrenRowW(ppl, owner, metrics, pid, root) ==
    LET kids == GetChildren(ppl, pid)
    IN IF kids = <<>> THEN 0
       ELSE FootprintSum(owner, metrics, kids, root) + (Len(kids) - 1) * H_GAP

\* width = max(parents-row width, children-row width), offset = width div 2
Footprint(ppl, owner, metrics, pid, root) ==
    LET p == Get(ppl, pid)
        parentsW == BOX_WIDTH * (1 + Len(p.spouses)) + SPOUSE_GAP * Len(p.spouses)
        width == Max(parentsW, ChildrenRowW(ppl, owner, metrics, pid, root))
    IN <<width, width \div 2>>

\* a step of the sizing in which the body of a call returns
SizeBodyReturns == pc = "size" /\ Len(sizeStack') < Len(sizeStack)

\* a step of the sizing in which a call returns at once to the loop of its caller
SizeReturnsAtOnce ==
    /\ pc = "size" /\ sizeStack # <<>>
    /\ Len(sizeStack') = Len(sizeStack)
    /\ sizeStack' # sizeStack

\* what the caller's loop has summed up (nothing for the call from Recalculate)
CallerSum(stack, n) == IF n = 0 THEN 0 ELSE stack[n].kidsW

ChildrenOf(ppl, x) ==
    LET parents == {x} \cup Range(Get(ppl, x).spouses)
    IN {c \in Ids(ppl) : Get(ppl, c).fatherId \in parents \/ Get(ppl, c).motherId \in parents}

\* the left-to-right number of a block: the spouses of the first half in list
\* order, the center, the spouses of the second half in list order
CenterBlock(sp) == Len(sp) \div 2 + 1
SpouseBlock(sp, i) == IF i <= Len(sp) \div 2 THEN i ELSE i + 1

\* the blocks of the spouses of x among the ids in S, the center if there is none
BlocksOf(sp, S) ==
    IF \E i \in 1..Len(sp) : sp[i] \in S
    THEN {SpouseBlock(sp, i) : i \in {j \in 1..Len(sp) : sp[j] \in S}}
    ELSE {CenterBlock(sp)}

\* x is the father or the mother of c
IsParent(ppl, x, c) == x \in {Get(ppl, c).fatherId, Get(ppl, c).motherId}

\* The blocks of child c of x.  For a child of x itself the other parent is the
\* parent that is not x.  For a child of x's spouses only, the other parent is
\* read either as the spouse who is its parent ("asSpouseChild") or as the
\* parent beside that spouse.
BlocksOfChild(ppl, x, c, asSpouseChild) ==
    LET sp == Get(ppl, x).spouses
        k == Get(ppl, c)
        both == {k.fatherId, k.motherId}
    IN IF IsParent(ppl, x, c) \/ asSpouseChild
       THEN BlocksOf(sp, both \ {x, 0})
       ELSE UNION {BlocksOf(sp, {IF k.fatherId = q THEN k.motherId ELSE k.fatherId})
                      : q \in both \cap Range(sp)}

\* kids lists child a before child b only if a's block is left of b's, or it
\* is the same block and a has the smaller identifier
InBlockOrder(ppl, x, kids, asSpouseChild) ==
    \A i, j \in 1..Len(kids) :
        i < j =>
            \E ba \in BlocksOfChild(ppl, x, kids[i], asSpouseChild),
               bb \in BlocksOfChild(ppl, x, kids[j], asSpouseChild) :
                ba < bb \/ (ba = bb /\ kids[i] < kids[j])

\* C23: GetChildren(X) returns each entity whose father or mother is X or one
\* of X's spouses exactly once, in left-to-right blocks: the children whose
\* other parent is in the first half of X's spouse list (in spouse-list order),
\* the children whose other parent is unknown or not a spouse of X, the
\* children whose other parent is in the second half; within one block the
\* identifiers ascend.  Either reading of "other parent" for a child of X's
\* spouses only is accepted, the same reading for the whole list.
C23_ChildrenInBlocks ==
    pc # "idle" =>
        \A x \in Ids(people) :
            LET kids == GetChildren(people, x)
            IN /\ Range(kids) = ChildrenOf(people, x)
               /\ Len(kids) = Cardinality(ChildrenOf(people, x))
               /\ \/ InBlockOrder(people, x, kids, TRUE)
                  \/ InBlockOrder(people, x, kids, FALSE)

====
